---------------------------- MODULE Spec2Model ----------------------------
(***************************************************************************)
(* A model of esky's privileged-helper channel (esky/helper/helper_unix.py) *)
(* The parent process and the helper subprocess talk over two FIFOs, one    *)
(* per direction (DuplexPipe), carrying length-prefixed pickles             *)
(* (SubprocPipe).  spawn_helper builds the helper's command line.           *)
(*                                                                          *)
(* The specifications share the variables:                                  *)
(*   Spec        a session: both sides call read, write, close; the parent  *)
(*               may terminate the helper, the helper may exit.             *)
(*   FairSpec    Spec, with every process running while it can.             *)
(*   StreamSpec  SubprocPipe.read against an arbitrary byte stream left in  *)
(*               the FIFO by the peer.                                      *)
(*   SpawnSpec   spawn_helper over all environments.                        *)
(*   ConnectSpec DuplexPipe.connect over all endpoints.                     *)
(*   TeardownSpec     close() and terminate() on a used connection, the     *)
(*                    lines of the two sides' calls interleaved.            *)
(*   SeqTeardownSpec  the two sides' close() one after the other.           *)
(*   AltFairSpec      a request/reply session in strict alternation, both   *)
(*                    processes scheduled fairly.                           *)
(*   BdistSpec        bdist_esky.run (esky/bdist_esky.py) over all scripts  *)
(*                    and freezer outputs.                                  *)
(* FIFO sizes are scaled down: PipeCap stands for the kernel's pipe         *)
(* capacity (65536 on Linux) and PipeBuf for PIPE_BUF (4096).               *)
(***************************************************************************)
EXTENDS Integers, Sequences, FiniteSets, TLC

----------------------------------------------------------------------------
(* Bounds of the model *)

\* capacity of a FIFO's kernel buffer, in bytes
PipeCap == 8
\* largest write the kernel performs atomically (PIPE_BUF)
PipeBuf == 4
\* calls of SubprocPipe.read per side
MaxReads == 2
\* calls of SubprocPipe.write per side
MaxWrites == 1
\* calls of DuplexPipe.connect on the endpoint under test (SpawnSpec)
MaxConnects == 3

\* width of the length prefix: struct.pack("I", ...) / self.pipe.read(4)
PrefixLen == 4

None == "None"

----------------------------------------------------------------------------
(* Python values that travel over the channel, and results of calls.       *)
(* A value or an exception is a record [t, v, at]: t the type, v the        *)
(* content as a sequence of numbers, at the source line that returned or    *)
(* raised it.                                                               *)

Val(t, v) == [t |-> t, v |-> v, at |-> 0]
Exc(t, line) == [t |-> t, v |-> << >>, at |-> line]

ObjNone == Val("NoneType", << >>)
ObjTrue == Val("bool", <<1>>)
ObjInt(n) == Val("int", <<n>>)
ObjStr(bytes) == Val("str", bytes)

ExcTypes == {"EOFError", "UnpicklingError", "ValueError", "OverflowError",
             "OSError", "TypeError"}
IsExc(r) == r.t \in ExcTypes

\* pickle opcodes (protocol 2)
OpPROTO == 128
OpSTOP == 46
OpNONE == 78
OpNEWTRUE == 136
OpNEWFALSE == 137
OpBININT1 == 75
OpSHORTBINSTRING == 85
OpBINPUT == 113
HighestProtocol == 2

\* pickle.dumps(obj, pickle.HIGHEST_PROTOCOL) as cPickle writes it
Dumps(obj) ==
  <<OpPROTO, HighestProtocol>> \o
  ( CASE obj.t = "NoneType" -> <<OpNONE>>
      [] obj.t = "bool" -> IF obj.v = <<1>> THEN <<OpNEWTRUE>> ELSE <<OpNEWFALSE>>
      [] obj.t = "int" -> <<OpBININT1, obj.v[1]>>
      [] obj.t = "str" -> <<OpSHORTBINSTRING, Len(obj.v)>> \o obj.v \o <<OpBINPUT, 1>> )
  \o <<OpSTOP>>

\* pickle.loads(data): the unpickler's loop over the opcodes, from position
\* i with the given stack (top last).  Running out of data is EOFError.
RECURSIVE Unpickle(_, _, _)
Unpickle(data, i, stack) ==
  IF i > Len(data) THEN Exc("EOFError", 97)
  ELSE LET op == data[i] IN
    CASE op = OpPROTO ->
           IF i + 1 > Len(data) THEN Exc("EOFError", 97)
           ELSE IF data[i + 1] > HighestProtocol THEN Exc("ValueError", 97)
           ELSE Unpickle(data, i + 2, stack)
      [] op = OpNONE -> Unpickle(data, i + 1, Append(stack, ObjNone))
      [] op = OpNEWTRUE -> Unpickle(data, i + 1, Append(stack, ObjTrue))
      [] op = OpNEWFALSE -> Unpickle(data, i + 1, Append(stack, Val("bool", <<0>>)))
      [] op = OpBININT1 ->
           IF i + 1 > Len(data) THEN Exc("EOFError", 97)
           ELSE Unpickle(data, i + 2, Append(stack, ObjInt(data[i + 1])))
      [] op = OpSHORTBINSTRING ->
           IF i + 1 > Len(data) \/ i + 1 + data[i + 1] > Len(data)
           THEN Exc("EOFError", 97)
           ELSE Unpickle(data, i + 2 + data[i + 1],
                         Append(stack, ObjStr(SubSeq(data, i + 2, i + 1 + data[i + 1]))))
      [] op = OpBINPUT ->
           IF i + 1 > Len(data) THEN Exc("EOFError", 97)
           ELSE IF stack = << >> THEN Exc("UnpicklingError", 97)
           ELSE Unpickle(data, i + 2, stack)
      [] op = OpSTOP ->
           IF stack = << >> THEN Exc("UnpicklingError", 97)
           ELSE [stack[Len(stack)] EXCEPT !.at = 97]
      [] OTHER -> Exc("UnpicklingError", 97)

Loads(data) == Unpickle(data, 1, << >>)

\* struct.pack("I", n): four bytes, native (little-endian) order
Pack(n) == <<n % 256, (n \div 256) % 256, (n \div 65536) % 256, (n \div 16777216) % 256>>

\* struct.unpack("I", b)[0]
Unpack(b) == b[1] + 256 * b[2] + 65536 * b[3] + 16777216 * b[4]

\* os.read takes its size as a C int: a larger one raises OverflowError.
\* (An unsigned value with the top bit set is exactly such a size.)
FitsCInt(b) == b[4] < 128

\* the bytes of one frame
Frame(obj) == Pack(Len(Dumps(obj))) \o Dumps(obj)

----------------------------------------------------------------------------
(* Paths, endpoints and the command line *)

\* os.path.join(dir, name): a path is the sequence of its components
Join(dir, name) == Append(dir, name)

\* the directory tempfile.mkdtemp() returns
TDir == <<"/tmp/tmpA">>

\* DuplexPipe.__init__(data=None): a fresh endpoint over two new FIFOs
DuplexPipeNew(tdir) ==
  [tdir |-> tdir, rnm |-> Join(tdir, "pipeout"), wnm |-> Join(tdir, "pipein"),
   rfd |-> None, wfd |-> None]

\* DuplexPipe.__init__(data): an endpoint over FIFOs that exist already
DuplexPipeFrom(data) ==
  [tdir |-> data[1], rnm |-> data[2], wnm |-> data[3], rfd |-> None, wfd |-> None]

\* DuplexPipe.connect(): the peer's endpoint, a bug that forgets the swap
ConnectNoSwap(e) == DuplexPipeFrom(<<e.tdir, e.rnm, e.wnm>>)

\* DuplexPipe.connect(): the peer's endpoint, a bug that hands the write-name
\* to both roles
ConnectWriteTwice(e) == DuplexPipeFrom(<<e.tdir, e.wnm, e.wnm>>)

\* DuplexPipe.connect(): the peer's endpoint
Connect(e) == DuplexPipeFrom(<<e.tdir, e.wnm, e.rnm>>)

\* pickle.dumps of a DuplexPipe instance: the items of its __dict__
DumpsInstance(e) ==
  <<<<"rfd", <<e.rfd>>>>, <<"rnm", e.rnm>>, <<"tdir", e.tdir>>,
    <<"wfd", <<e.wfd>>>>, <<"wnm", e.wnm>>>>

\* the value stored under `key` in pickled items
ItemOf(items, key) == (CHOOSE i \in 1..Len(items) : items[i][1] = key) 

\* pickle.loads of a pickled DuplexPipe: the instance is rebuilt from the
\* items, __init__ is not called
LoadsInstance(items) ==
  [tdir |-> items[ItemOf(items, "tdir")][2],
   rnm |-> items[ItemOf(items, "rnm")][2],
   wnm |-> items[ItemOf(items, "wnm")][2],
   rfd |-> items[ItemOf(items, "rfd")][2][1],
   wfd |-> items[ItemOf(items, "wfd")][2][1]]

\* base64.b64encode / b64decode of a command-line argument
B64Encode(data) == <<"b64", data>>
B64Decode(arg) == arg[2]

----------------------------------------------------------------------------
(* State *)

VARIABLES
  \* the file system and the kernel's FIFOs
  fs,       \* the paths that exist
  buf,      \* per FIFO path: the bytes written and not yet read
  \* the two processes
  ep,       \* per side: its DuplexPipe (tdir, rnm, wnm, rfd, wfd)
  proc,     \* the helper subprocess: "prompt", "running" or "exited"
  pc,       \* per side: the line it is at, "idle" between calls
  wpay,     \* per side: `data` of SubprocPipe.write
  wrem,     \* per side: the bytes the current os.write has yet to hand over
  wcnt,     \* per side: the bytes the current os.write has handed over
  rdata,    \* per side: what the last os.read returned
  sz,       \* per side: `sz` of SubprocPipe.read after unpack
  nreads,   \* per side: calls of SubprocPipe.read
  \* history
  written,  \* per side: the objects given to SubprocPipe.write
  wdone,    \* per side: the calls of SubprocPipe.write that returned
  sent,     \* per side: every byte its FIFO accepted from it
  rlog,     \* per side: the outcome of each finished SubprocPipe.read
  ret,      \* per side: the outcome of the last write, close or terminate
  \* spawn_helper
  spc,      \* "start", "done", or "off" when no spawn is modelled
  as_root,  \* the argument as_root
  frozen,   \* sys.frozen
  environ,  \* os.environ: [PATH, DISPLAY], None when unset
  exists,   \* the paths os.path.exists answers True for
  exe,      \* the command line handed to subprocess.Popen
  conn,     \* what spawn_helper returned or raised
  \* DuplexPipe.connect under test
  tpipe,    \* an endpoint
  tpipe0,   \* the endpoint it started as
  nconn,    \* how often connect() was applied to it
  \* bdist_esky.run
  scripts,  \* self.distribution.scripts
  platform, \* sys.platform
  isdir,    \* the paths of fs that are directories
  manifest, \* the lines written to esky-bootstrap.txt
  bst       \* how run() ended: returned or raised, and at which line

chanVars == <<fs, buf, ep, proc, pc, wpay, wrem, wcnt, rdata, sz, nreads,
              written, wdone, sent, rlog, ret>>
spawnVars == <<spc, as_root, frozen, environ, exists, exe, conn>>
connVars == <<tpipe, tpipe0, nconn>>
bdistVars == <<scripts, platform, isdir, manifest, bst>>
vars == <<chanVars, spawnVars, connVars, bdistVars>>

Sides == {"parent", "helper"}
Peer(s) == IF s = "parent" THEN "helper" ELSE "parent"
Fifos == {Join(TDir, "pipeout"), Join(TDir, "pipein")}

Min(a, b) == IF a < b THEN a ELSE b

\* the objects the sides send each other
Objs == {ObjNone, ObjStr(Frame(ObjNone))}

----------------------------------------------------------------------------
(* The kernel's view of a FIFO.  A descriptor is None (never opened),       *)
(* "waiting" (inside os.open, which blocks until the other end is opened),  *)
(* "open" or "closed".                                                      *)

HasReader(f) == \E t \in Sides : ep[t].rnm = f /\ ep[t].rfd \in {"waiting", "open"}
HasWriter(f) == \E t \in Sides : ep[t].wnm = f /\ ep[t].wfd \in {"waiting", "open"}
Space(f) == PipeCap - Len(buf[f])

\* the helper runs only once the elevation prompt, if any, is answered
CanRun(s) == pc[s] = "idle" /\ (s = "helper" => proc = "running")

\* os.open(self.rnm, os.O_RDONLY) by side s: with a writer there the open
\* completes, and completes the writer's open; otherwise it waits
OpenForRead(s) ==
  [t \in Sides |->
     IF t = s
     THEN [ep[t] EXCEPT !.rfd = IF HasWriter(ep[s].rnm) THEN "open" ELSE "waiting"]
     ELSE IF ep[t].wnm = ep[s].rnm /\ ep[t].wfd = "waiting"
          THEN [ep[t] EXCEPT !.wfd = "open"]
          ELSE ep[t]]

\* os.open(self.wnm, os.O_WRONLY) by side s
OpenForWrite(s) ==
  [t \in Sides |->
     IF t = s
     THEN [ep[t] EXCEPT !.wfd = IF HasReader(ep[s].wnm) THEN "open" ELSE "waiting"]
     ELSE IF ep[t].rnm = ep[s].wnm /\ ep[t].rfd = "waiting"
          THEN [ep[t] EXCEPT !.rfd = "open"]
          ELSE ep[t]]

\* a finished SubprocPipe.read: its outcome is logged, the side is idle
ReadEnds(s, outcome) ==
  /\ rlog' = [rlog EXCEPT ![s] = Append(@, outcome)]
  /\ pc' = [pc EXCEPT ![s] = "idle"]

\* a finished write, close or terminate
CallEnds(s, op, outcome) ==
  /\ ret' = [ret EXCEPT ![s] = [op |-> op, t |-> outcome.t, at |-> outcome.at]]
  /\ pc' = [pc EXCEPT ![s] = "idle"]

Ok == Val("ok", << >>)

----------------------------------------------------------------------------
(* SubprocPipe.read *)

\* line 91: `len(sz) < 4`, the end-of-stream test on the length prefix
ShortPrefix(data) == Len(data) < PrefixLen

\* line 95 with the test left out: a payload is never found short
ShortPayloadNever(data, n) == FALSE

\* line 95: `len(data) < sz`, the end-of-stream test on the payload
ShortPayload(data, n) == Len(data) < n

\* SubprocPipe.read is called: it calls self.pipe.read(4), which opens the
\* read side on first use
ReadCall(s) ==
  /\ CanRun(s)
  /\ nreads[s] < MaxReads
  /\ nreads' = [nreads EXCEPT ![s] = @ + 1]
  /\ IF ep[s].rfd # None
     THEN /\ pc' = [pc EXCEPT ![s] = "r90_read"]
          /\ UNCHANGED <<ep, rlog>>
     ELSE IF ep[s].rnm \notin fs
     THEN /\ ReadEnds(s, Exc("OSError", 60))
          /\ UNCHANGED ep
     ELSE /\ ep' = OpenForRead(s)
          /\ pc' = [pc EXCEPT ![s] = IF HasWriter(ep[s].rnm) THEN "r90_read" ELSE "r90_open"]
          /\ UNCHANGED rlog
  /\ UNCHANGED <<fs, buf, proc, wpay, wrem, wcnt, rdata, sz, written, wdone, sent, ret>>
  /\ UNCHANGED <<spawnVars, connVars, bdistVars>>

\* the blocked os.open returns: the other end has been opened
OpenReturn(s) ==
  /\ \/ pc[s] = "r90_open" /\ ep[s].rfd = "open" /\ pc' = [pc EXCEPT ![s] = "r90_read"]
     \/ pc[s] = "w102_open" /\ ep[s].wfd = "open" /\ pc' = [pc EXCEPT ![s] = "w102_write"]
  /\ UNCHANGED <<fs, buf, ep, proc, wpay, wrem, wcnt, rdata, sz, nreads,
                 written, wdone, sent, rlog, ret>>
  /\ UNCHANGED <<spawnVars, connVars, bdistVars>>

\* os.read(self.rfd, n): up to n of the bytes in the FIFO; nothing at all
\* once the FIFO is empty and no writer holds it; it blocks while the FIFO
\* is empty and a writer holds it.
OsRead(s) ==
  /\ pc[s] \in {"r90_read", "r94_read"}
  /\ LET n == IF pc[s] = "r90_read" THEN PrefixLen ELSE sz[s]
         f == ep[s].rnm
         k == Min(n, Len(buf[f]))
         after == IF pc[s] = "r90_read" THEN "r91" ELSE "r95"
     IN IF ep[s].rfd = "closed"
        THEN /\ ReadEnds(s, Exc("OSError", 61))
             /\ UNCHANGED <<buf, rdata>>
        ELSE /\ n = 0 \/ buf[f] # << >> \/ ~HasWriter(f)
             /\ rdata' = [rdata EXCEPT ![s] = SubSeq(buf[f], 1, k)]
             /\ buf' = [buf EXCEPT ![f] = SubSeq(@, k + 1, Len(@))]
             /\ pc' = [pc EXCEPT ![s] = after]
             /\ UNCHANGED rlog
  /\ UNCHANGED <<fs, ep, proc, wpay, wrem, wcnt, sz, nreads, written, wdone, sent, ret>>
  /\ UNCHANGED <<spawnVars, connVars, bdistVars>>

\* lines 91-94: the length prefix is checked and unpacked
ReadCheckSz(s) ==
  /\ pc[s] = "r91"
  /\ IF ShortPrefix(rdata[s])
     THEN /\ ReadEnds(s, Exc("EOFError", 92))
          /\ UNCHANGED sz
     ELSE IF ~FitsCInt(rdata[s])
     THEN /\ ReadEnds(s, Exc("OverflowError", 61))
          /\ UNCHANGED sz
     ELSE /\ sz' = [sz EXCEPT ![s] = Unpack(rdata[s])]
          /\ pc' = [pc EXCEPT ![s] = "r94_read"]
          /\ UNCHANGED rlog
  /\ UNCHANGED <<fs, buf, ep, proc, wpay, wrem, wcnt, rdata, nreads, written, wdone, sent, ret>>
  /\ UNCHANGED <<spawnVars, connVars, bdistVars>>

\* lines 95-97: the payload is checked and unpickled
ReadCheckData(s) ==
  /\ pc[s] = "r95"
  /\ IF ShortPayload(rdata[s], sz[s])
     THEN ReadEnds(s, Exc("EOFError", 96))
     ELSE ReadEnds(s, Loads(rdata[s]))
  /\ UNCHANGED <<fs, buf, ep, proc, wpay, wrem, wcnt, rdata, sz, nreads, written, wdone, sent, ret>>
  /\ UNCHANGED <<spawnVars, connVars, bdistVars>>

----------------------------------------------------------------------------
(* SubprocPipe.write *)

\* SubprocPipe.write(obj) is called: the object is pickled and
\* self.pipe.write(struct.pack("I", len(data))) opens the write side on
\* first use
WriteCall(s, obj) ==
  /\ CanRun(s)
  /\ Len(written[s]) < MaxWrites
  /\ written' = [written EXCEPT ![s] = Append(@, obj)]
  /\ wpay' = [wpay EXCEPT ![s] = Dumps(obj)]
  /\ wrem' = [wrem EXCEPT ![s] = Pack(Len(Dumps(obj)))]
  /\ wcnt' = [wcnt EXCEPT ![s] = 0]
  /\ IF ep[s].wfd # None
     THEN /\ pc' = [pc EXCEPT ![s] = "w102_write"]
          /\ UNCHANGED <<ep, ret>>
     ELSE IF ep[s].wnm \notin fs
     THEN /\ CallEnds(s, "write", Exc("OSError", 66))
          /\ UNCHANGED ep
     ELSE /\ ep' = OpenForWrite(s)
          /\ pc' = [pc EXCEPT ![s] = IF HasReader(ep[s].wnm) THEN "w102_write" ELSE "w102_open"]
          /\ UNCHANGED ret
  /\ UNCHANGED <<fs, buf, proc, rdata, sz, nreads, wdone, sent, rlog>>
  /\ UNCHANGED <<spawnVars, connVars, bdistVars>>

\* os.write returns to line 102 or 103 of SubprocPipe.write, which drops the
\* count it returns: after the prefix the payload is written, after the
\* payload write() returns
OsWriteReturns(s) ==
  IF pc[s] = "w102_write"
  THEN /\ pc' = [pc EXCEPT ![s] = "w103_write"]
       /\ wrem' = [wrem EXCEPT ![s] = wpay[s]]
       /\ wcnt' = [wcnt EXCEPT ![s] = 0]
       /\ UNCHANGED <<wdone, ret>>
  ELSE /\ CallEnds(s, "write", Ok)
       /\ wdone' = [wdone EXCEPT ![s] = @ + 1]
       /\ wrem' = [wrem EXCEPT ![s] = << >>]
       /\ wcnt' = [wcnt EXCEPT ![s] = 0]

\* os.write(self.wfd, data): a write of at most PipeBuf bytes waits for room
\* and goes in whole; a larger one hands over what fits and waits for room
\* for the rest
OsWrite(s) ==
  /\ pc[s] \in {"w102_write", "w103_write"}
  /\ LET f == ep[s].wnm
         atomic == wcnt[s] + Len(wrem[s]) <= PipeBuf
         k == Min(Space(f), Len(wrem[s]))
     IN IF ep[s].wfd = "closed" \/ ~HasReader(f)
        THEN /\ CallEnds(s, "write", Exc("OSError", 67))
             /\ wrem' = [wrem EXCEPT ![s] = << >>]
             /\ wcnt' = [wcnt EXCEPT ![s] = 0]
             /\ UNCHANGED <<buf, sent, wdone>>
        ELSE /\ IF atomic THEN Space(f) >= Len(wrem[s]) ELSE Space(f) >= 1
             /\ buf' = [buf EXCEPT ![f] = @ \o SubSeq(wrem[s], 1, k)]
             /\ sent' = [sent EXCEPT ![s] = @ \o SubSeq(wrem[s], 1, k)]
             /\ IF k = Len(wrem[s])
                THEN OsWriteReturns(s)
                ELSE /\ wrem' = [wrem EXCEPT ![s] = SubSeq(@, k + 1, Len(@))]
                     /\ wcnt' = [wcnt EXCEPT ![s] = @ + k]
                     /\ UNCHANGED <<pc, wdone, ret>>
  /\ UNCHANGED <<fs, ep, proc, wpay, rdata, sz, nreads, written, rlog>>
  /\ UNCHANGED <<spawnVars, connVars, bdistVars>>

\* a signal handler runs while os.write waits for room with part of the data
\* handed over: os.write returns the count so far (a short write)
OsWriteInterrupted(s) ==
  /\ pc[s] \in {"w102_write", "w103_write"}
  /\ ep[s].wfd = "open"
  /\ wcnt[s] > 0
  /\ wrem[s] # << >>
  /\ Space(ep[s].wnm) = 0
  /\ OsWriteReturns(s)
  /\ UNCHANGED <<fs, buf, ep, proc, wpay, rdata, sz, nreads, written, sent, rlog>>
  /\ UNCHANGED <<spawnVars, connVars, bdistVars>>

----------------------------------------------------------------------------
(* DuplexPipe.close, through SubprocPipe.close, line by line *)

\* os.close(fd) on a descriptor attribute: None is a TypeError, a
\* descriptor closed before is an OSError
CloseOutcome(fd, line) ==
  IF fd = None THEN Exc("TypeError", line)
  ELSE IF fd = "closed" THEN Exc("OSError", line)
  ELSE Ok

\* os.listdir(tdir): the entries of the directory
ListDir(tdir) == {p \in fs : Len(p) = Len(tdir) + 1 /\ SubSeq(p, 1, Len(tdir)) = tdir}

\* close() is called; line 70: os.close(self.rfd)
CloseCall(s) ==
  /\ CanRun(s)
  /\ IF IsExc(CloseOutcome(ep[s].rfd, 70))
     THEN /\ CallEnds(s, "close", CloseOutcome(ep[s].rfd, 70))
          /\ UNCHANGED ep
     ELSE /\ ep' = [ep EXCEPT ![s].rfd = "closed"]
          /\ pc' = [pc EXCEPT ![s] = "c71"]
          /\ UNCHANGED ret
  /\ UNCHANGED <<fs, buf, proc, wpay, wrem, wcnt, rdata, sz, nreads, written, wdone, sent, rlog>>
  /\ UNCHANGED <<spawnVars, connVars, bdistVars>>

\* line 71: os.close(self.wfd)
CloseWfd(s) ==
  /\ pc[s] = "c71"
  /\ IF IsExc(CloseOutcome(ep[s].wfd, 71))
     THEN /\ CallEnds(s, "close", CloseOutcome(ep[s].wfd, 71))
          /\ UNCHANGED ep
     ELSE /\ ep' = [ep EXCEPT ![s].wfd = "closed"]
          /\ pc' = [pc EXCEPT ![s] = "c72"]
          /\ UNCHANGED ret
  /\ UNCHANGED <<fs, buf, proc, wpay, wrem, wcnt, rdata, sz, nreads, written, wdone, sent, rlog>>
  /\ UNCHANGED <<spawnVars, connVars, bdistVars>>

\* line 72: os.unlink(self.wnm)
CloseUnlink(s) ==
  /\ pc[s] = "c72"
  /\ IF ep[s].wnm \in fs
     THEN /\ fs' = fs \ {ep[s].wnm}
          /\ pc' = [pc EXCEPT ![s] = "c73"]
          /\ UNCHANGED ret
     ELSE /\ CallEnds(s, "close", Exc("OSError", 72))
          /\ UNCHANGED fs
  /\ UNCHANGED <<buf, ep, proc, wpay, wrem, wcnt, rdata, sz, nreads, written, wdone, sent, rlog>>
  /\ UNCHANGED <<spawnVars, connVars, bdistVars>>

\* line 73 with the test left out: the directory is removed whatever it holds
CloseListDirAlways(s) ==
  /\ pc[s] = "c73"
  /\ IF ep[s].tdir \notin fs
     THEN CallEnds(s, "close", Exc("OSError", 73))
     ELSE pc' = [pc EXCEPT ![s] = "c74"] /\ UNCHANGED ret
  /\ UNCHANGED <<fs, buf, ep, proc, wpay, wrem, wcnt, rdata, sz, nreads, written, wdone, sent, rlog>>
  /\ UNCHANGED <<spawnVars, connVars, bdistVars>>

\* line 73: if not os.listdir(self.tdir)
CloseListDir(s) ==
  /\ pc[s] = "c73"
  /\ IF ep[s].tdir \notin fs
     THEN CallEnds(s, "close", Exc("OSError", 73))
     ELSE IF ListDir(ep[s].tdir) = {}
     THEN pc' = [pc EXCEPT ![s] = "c74"] /\ UNCHANGED ret
     ELSE CallEnds(s, "close", Ok)
  /\ UNCHANGED <<fs, buf, ep, proc, wpay, wrem, wcnt, rdata, sz, nreads, written, wdone, sent, rlog>>
  /\ UNCHANGED <<spawnVars, connVars, bdistVars>>

\* line 74: os.rmdir(self.tdir)
CloseRmDir(s) ==
  /\ pc[s] = "c74"
  /\ IF ep[s].tdir \in fs /\ ListDir(ep[s].tdir) = {}
     THEN /\ fs' = fs \ {ep[s].tdir}
          /\ CallEnds(s, "close", Ok)
     ELSE /\ CallEnds(s, "close", Exc("OSError", 74))
          /\ UNCHANGED fs
  /\ UNCHANGED <<buf, ep, proc, wpay, wrem, wcnt, rdata, sz, nreads, written, wdone, sent, rlog>>
  /\ UNCHANGED <<spawnVars, connVars, bdistVars>>

----------------------------------------------------------------------------
(* The helper subprocess and SubprocPipe.terminate *)

\* the kernel closes the descriptors of the helper when it ends
HelperGone ==
  [ep EXCEPT !["helper"].rfd = IF @ \in {"waiting", "open"} THEN "closed" ELSE @,
             !["helper"].wfd = IF @ \in {"waiting", "open"} THEN "closed" ELSE @]

\* terminate() that signals only while the channel has not been closed
TerminateIfOpen(s) ==
  /\ CanRun(s)
  /\ IF s = "parent" /\ ep[s].rfd # "closed"
     THEN /\ proc' = "exited"
          /\ ep' = HelperGone
          /\ ret' = [ret EXCEPT ![s] = [op |-> "terminate", t |-> "ok", at |-> 0]]
          /\ pc' = [pc EXCEPT !["helper"] = "dead"]
     ELSE /\ CallEnds(s, "terminate", Ok)
          /\ UNCHANGED <<proc, ep>>
  /\ UNCHANGED <<fs, buf, wpay, wrem, wcnt, rdata, sz, nreads, written, wdone, sent, rlog>>
  /\ UNCHANGED <<spawnVars, connVars, bdistVars>>

\* SubprocPipe.terminate(): SIGTERM to self.proc, if there is one, through
\* Popen.terminate or os.kill alike.  The parent's connection holds the Popen
\* object, the helper's holds None.
Terminate(s) ==
  /\ CanRun(s)
  /\ IF s = "parent"
     THEN /\ proc' = "exited"
          /\ ep' = HelperGone
          /\ ret' = [ret EXCEPT ![s] = [op |-> "terminate", t |-> "ok", at |-> 0]]
          /\ pc' = [pc EXCEPT !["helper"] = "dead"]
     ELSE /\ CallEnds(s, "terminate", Ok)
          /\ UNCHANGED <<proc, ep>>
  /\ UNCHANGED <<fs, buf, wpay, wrem, wcnt, rdata, sz, nreads, written, wdone, sent, rlog>>
  /\ UNCHANGED <<spawnVars, connVars, bdistVars>>

\* the elevation prompt is answered and the helper's code starts
HelperStart ==
  /\ proc = "prompt"
  /\ proc' = "running"
  /\ UNCHANGED <<fs, buf, ep, pc, wpay, wrem, wcnt, rdata, sz, nreads, written, wdone, sent, rlog, ret>>
  /\ UNCHANGED <<spawnVars, connVars, bdistVars>>

\* the helper ends by itself: the prompt is declined, it crashes or exits
HelperExit ==
  /\ proc \in {"prompt", "running"}
  /\ proc' = "exited"
  /\ ep' = HelperGone
  /\ pc' = [pc EXCEPT !["helper"] = "dead"]
  /\ UNCHANGED <<fs, buf, wpay, wrem, wcnt, rdata, sz, nreads, written, wdone, sent, rlog, ret>>
  /\ UNCHANGED <<spawnVars, connVars, bdistVars>>

----------------------------------------------------------------------------
(* spawn_helper *)

\* a dict without keys
EmptyDict == [k \in {} |-> << >>]

\* sys.executable: the frozen application, or the interpreter
SysExecutable == IF frozen THEN <<"/opt/app", "app">> ELSE <<"/usr/bin", "python">>

\* os.path.dirname
Dirname(path) == SubSeq(path, 1, Len(path) - 1)

\* find_helper(): the command that runs the helper
FindHelper ==
  IF frozen
  THEN <<Join(Dirname(SysExecutable), "esky-update-helper")>>
  ELSE <<SysExecutable, <<"-m">>, <<"esky.helper.__main__">>>>

\* os.environ.get("PATH", "/bin:/usr/bin").split(":")
PathDirs == IF "PATH" \in DOMAIN environ THEN environ["PATH"] ELSE <<<<"/bin">>, <<"/usr/bin">>>>

\* the loop of find_exe over the directories; << >> stands for None
RECURSIVE FindIn(_, _, _)
FindIn(dirs, name, args) ==
  IF dirs = << >> THEN << >>
  ELSE IF Join(Head(dirs), name) \in exists THEN <<Join(Head(dirs), name)>> \o args
  ELSE FindIn(Tail(dirs), name, args)

\* find_exe with a fallback to the bare name when nothing is found
FindExeBare(name, args) ==
  IF FindIn(PathDirs, name, args) = << >> THEN <<<<name>>>> \o args
  ELSE FindIn(PathDirs, name, args)

\* find_exe(name, *args)
FindExe(name, args) == FindIn(PathDirs, name, args)

\* the application being updated, and pickle.dumps of it
Esky == [name |-> "app"]
DumpsEsky == <<<<"name", <<Esky.name>>>>>>

\* "%s updater" % (esky.name,)
DisplayName == <<Esky.name, " updater">>

\* lines 144-152 with the test of as_root left out: elevation is looked for
\* whatever the caller asked
SudoAlways(root) ==
  LET gk == IF "DISPLAY" \in DOMAIN environ
            THEN FindExe("gksudo", <<<<"-k">>, <<"-D">>, DisplayName, <<"--">>>>)
            ELSE << >>
      kd == IF "DISPLAY" \in DOMAIN environ /\ gk = << >>
            THEN FindExe("kdesudo", << >>)
            ELSE gk
  IN IF kd = << >> THEN FindExe("sudo", << >>) ELSE kd

\* lines 144-152 with the two graphical tools probed in the other order
SudoKdeFirst(root) ==
  IF ~root THEN << >>
  ELSE LET kd == IF "DISPLAY" \in DOMAIN environ
                 THEN FindExe("kdesudo", << >>)
                 ELSE << >>
           gk == IF "DISPLAY" \in DOMAIN environ /\ kd = << >>
                 THEN FindExe("gksudo", <<<<"-k">>, <<"-D">>, DisplayName, <<"--">>>>)
                 ELSE kd
       IN IF gk = << >> THEN FindExe("sudo", << >>) ELSE gk

\* lines 144-152: the sudo-like program to run the helper with; << >> is None
SudoFor(root) ==
  IF ~root THEN << >>
  ELSE LET gk == IF "DISPLAY" \in DOMAIN environ
                 THEN FindExe("gksudo", <<<<"-k">>, <<"-D">>, DisplayName, <<"--">>>>)
                 ELSE << >>
           kd == IF "DISPLAY" \in DOMAIN environ /\ gk = << >>
                 THEN FindExe("kdesudo", << >>)
                 ELSE gk
       IN IF kd = << >> THEN FindExe("sudo", << >>) ELSE kd

\* lines 138-154: the command line
CommandLine(root) ==
  LET p_pipe == DuplexPipeNew(TDir)
      c_pipe == Connect(p_pipe)
      data == DumpsInstance(c_pipe)
      exe0 == Append(FindHelper \o <<B64Encode(data)>>, B64Encode(DumpsEsky))
  IN IF SudoFor(root) # << >> THEN SudoFor(root) \o exe0 ELSE exe0

\* the endpoint the helper finds on its command line
EndpointArg(cmd) == LoadsInstance(B64Decode(cmd[Len(cmd) - 1]))

NoPipe == DuplexPipeFrom(<<<< >>, << >>, << >>>>)

\* spawn_helper(esky, as_root): the FIFOs are made, the command line is
\* built and subprocess.Popen runs it, or raises OSError when its first
\* element does not exist
SpawnHelper ==
  /\ spc = "start"
  /\ spc' = "done"
  /\ fs' = fs \cup {TDir} \cup {DuplexPipeNew(TDir).rnm, DuplexPipeNew(TDir).wnm}
  /\ exe' = CommandLine(as_root)
  /\ IF CommandLine(as_root)[1] \in exists
     THEN /\ conn' = [op |-> "spawn_helper", t |-> "SubprocPipe", at |-> 159]
          /\ proc' = IF SudoFor(as_root) # << >> THEN "prompt" ELSE "running"
          /\ ep' = [s \in Sides |-> IF s = "parent" THEN DuplexPipeNew(TDir)
                                    ELSE EndpointArg(CommandLine(as_root))]
     ELSE /\ conn' = [op |-> "spawn_helper", t |-> "OSError", at |-> 157]
          /\ proc' = proc
          /\ ep' = [ep EXCEPT !["parent"] = DuplexPipeNew(TDir)]
  /\ UNCHANGED <<buf, pc, wpay, wrem, wcnt, rdata, sz, nreads, written, wdone, sent, rlog, ret>>
  /\ UNCHANGED <<as_root, frozen, environ, exists>>
  /\ UNCHANGED <<connVars, bdistVars>>

----------------------------------------------------------------------------
(* The session: the state spawn_helper leaves behind *)

NoRet == [op |-> "none", t |-> "none", at |-> 0]

SpawnOff ==
  /\ spc = "off"
  /\ as_root = FALSE
  /\ frozen = FALSE
  /\ environ = EmptyDict
  /\ exists = {}
  /\ exe = << >>
  /\ conn = NoRet

ConnOff ==
  /\ tpipe = DuplexPipeNew(TDir)
  /\ tpipe0 = DuplexPipeNew(TDir)
  /\ nconn = MaxConnects

\* no run of bdist_esky
BdistOff ==
  /\ scripts = << >>
  /\ platform = "linux2"
  /\ isdir = {}
  /\ manifest = << >>
  /\ bst = [t |-> "off", at |-> 0]

\* the parent keeps p_pipe; the helper rebuilds c_pipe from its command line
ParentPipe == DuplexPipeNew(TDir)
HelperPipe == LoadsInstance(B64Decode(B64Encode(DumpsInstance(Connect(ParentPipe)))))

\* no call made yet
CallsInit ==
  /\ wpay = [s \in Sides |-> << >>]
  /\ wrem = [s \in Sides |-> << >>]
  /\ wcnt = [s \in Sides |-> 0]
  /\ rdata = [s \in Sides |-> << >>]
  /\ sz = [s \in Sides |-> 0]
  /\ written = [s \in Sides |-> << >>]
  /\ wdone = [s \in Sides |-> 0]
  /\ rlog = [s \in Sides |-> << >>]
  /\ ret = [s \in Sides |-> NoRet]

LocalsInit ==
  /\ pc = [s \in Sides |-> "idle"]
  /\ nreads = [s \in Sides |-> 0]
  /\ CallsInit

Init ==
  /\ fs = {TDir} \cup Fifos
  /\ buf = [f \in Fifos |-> << >>]
  /\ ep = [s \in Sides |-> IF s = "parent" THEN ParentPipe ELSE HelperPipe]
  /\ proc \in {"prompt", "running"}
  /\ sent = [s \in Sides |-> << >>]
  /\ LocalsInit
  /\ SpawnOff
  /\ ConnOff
  /\ BdistOff

Next ==
  \E s \in Sides :
    \/ ReadCall(s)
    \/ OpenReturn(s)
    \/ OsRead(s)
    \/ ReadCheckSz(s)
    \/ ReadCheckData(s)
    \/ \E obj \in Objs : WriteCall(s, obj)
    \/ OsWrite(s)
    \/ OsWriteInterrupted(s)
    \/ CloseCall(s)
    \/ CloseWfd(s)
    \/ CloseUnlink(s)
    \/ CloseListDir(s)
    \/ CloseRmDir(s)
    \/ Terminate(s)
    \/ HelperStart
    \/ HelperExit

Spec == Init /\ [][Next]_vars

----------------------------------------------------------------------------
(* SubprocPipe.read against any byte stream: the peer, whose program is not *)
(* part of helper_unix.py, has opened the FIFO and left in it the first     *)
(* bytes of a frame with any payload, and holds its write side open or has  *)
(* closed it.                                                               *)

\* the bytes payloads are made of
RawBytes == {OpPROTO, HighestProtocol, OpNONE, OpSTOP, OpBININT1}

\* the longest payload
MaxRawLen == 4

RawPayloads == UNION {[1..n -> RawBytes] : n \in 0..Min(MaxRawLen, PipeCap - PrefixLen)}

\* the first bytes, or all, of the frame of a payload
Streams ==
  {SubSeq(Pack(Len(p)) \o p, 1, k) : <<p, k>> \in
     {pk \in RawPayloads \X (0..(PrefixLen + MaxRawLen)) : pk[2] <= PrefixLen + Len(pk[1])}}

\* the parent is inside its first read(): its os.open has returned because
\* the peer opened the write side; the peer has written st
StreamInit ==
  /\ fs = {TDir} \cup Fifos
  /\ \E st \in Streams :
       /\ buf = [f \in Fifos |-> IF f = ParentPipe.rnm THEN st ELSE << >>]
       /\ sent = [s \in Sides |-> IF s = "helper" THEN st ELSE << >>]
  /\ \E wfd \in {"open", "closed"} :
       ep = [s \in Sides |-> IF s = "parent"
                             THEN [ParentPipe EXCEPT !.rfd = "open"]
                             ELSE [HelperPipe EXCEPT !.wfd = wfd]]
  /\ proc = "running"
  /\ pc = [s \in Sides |-> IF s = "parent" THEN "r90_read" ELSE "idle"]
  /\ nreads = [s \in Sides |-> IF s = "parent" THEN 1 ELSE 0]
  /\ CallsInit
  /\ SpawnOff
  /\ ConnOff
  /\ BdistOff

StreamNext ==
  \/ ReadCall("parent")
  \/ OsRead("parent")
  \/ ReadCheckSz("parent")
  \/ ReadCheckData("parent")
  \/ HelperExit

StreamSpec == StreamInit /\ [][StreamNext]_vars

----------------------------------------------------------------------------
(* spawn_helper in every environment *)

ElevationPrograms == {"gksudo", "kdesudo", "sudo"}
SearchDirs == {<<"/bin">>, <<"/usr/bin">>}

\* the values of PATH
PathValues == {<<<<"/bin">>>>, <<<<"/usr/bin">>>>, <<<<"/usr/bin">>, <<"/bin">>>>}

Environs ==
  {EmptyDict, [DISPLAY |-> <<":0">>]}
    \cup {[PATH |-> pv] : pv \in PathValues}
    \cup {[PATH |-> pv, DISPLAY |-> <<":0">>] : pv \in PathValues}

\* the programs that may or may not be installed; the interpreter that runs
\* this code always is
Installable ==
  {Join(d, n) : <<d, n>> \in SearchDirs \X ElevationPrograms}
    \cup {<<"/opt/app", "esky-update-helper">>}

SpawnInit ==
  /\ spc = "start"
  /\ as_root \in BOOLEAN
  /\ frozen \in BOOLEAN
  /\ environ \in Environs
  /\ \E inst \in SUBSET Installable : exists = inst \cup {<<"/usr/bin", "python">>}
  /\ exe = << >>
  /\ conn = NoRet
  /\ fs = {}
  /\ buf = [f \in Fifos |-> << >>]
  /\ ep = [s \in Sides |-> NoPipe]
  /\ proc = "none"
  /\ sent = [s \in Sides |-> << >>]
  /\ LocalsInit
  /\ ConnOff
  /\ BdistOff

SpawnNext == SpawnHelper

SpawnSpec == SpawnInit /\ [][SpawnNext]_vars

----------------------------------------------------------------------------
(* DuplexPipe.connect on any endpoint *)

FifoNames == {"pipeout", "pipein", "a"}
TestDirs == {TDir, <<"/tmp/tmpB">>}

\* endpoints fresh from DuplexPipe() and rebuilt from location data, never
\* used or with descriptors open
TestPipes ==
  {[e EXCEPT !.rfd = fd[1], !.wfd = fd[2]] : <<e, fd>> \in
     ({DuplexPipeNew(d) : d \in TestDirs}
        \cup {DuplexPipeFrom(<<d, Join(d, r), Join(d, w)>>) :
                <<d, r, w>> \in TestDirs \X FifoNames \X FifoNames})
     \X ({None, "open"} \X {None, "open"})}

\* e = e.connect()
ConnectStep ==
  /\ nconn < MaxConnects
  /\ tpipe' = Connect(tpipe)
  /\ nconn' = nconn + 1
  /\ UNCHANGED <<tpipe0, chanVars, spawnVars, bdistVars>>

ConnectInit ==
  /\ tpipe0 \in TestPipes
  /\ tpipe = tpipe0
  /\ nconn = 0
  /\ fs = {}
  /\ buf = [f \in Fifos |-> << >>]
  /\ ep = [s \in Sides |-> NoPipe]
  /\ proc = "none"
  /\ sent = [s \in Sides |-> << >>]
  /\ LocalsInit
  /\ SpawnOff
  /\ BdistOff

ConnectNext == ConnectStep

ConnectSpec == ConnectInit /\ [][ConnectNext]_vars

\* both processes keep running while they can: a blocked call stays blocked
\* only while what it waits for does not happen
FairSpec == Spec /\ WF_vars(Next)

----------------------------------------------------------------------------
(* Properties of the session *)

\* the frames of a sequence of objects, one after the other
RECURSIVE Frames(_)
Frames(objs) == IF objs = << >> THEN << >> ELSE Frame(Head(objs)) \o Frames(Tail(objs))

\* what read() returns for an object that was written
Returned(obj) == [obj EXCEPT !.at = 97]

\* the objects the finished reads of a side returned
RECURSIVE Received(_)
Received(log) ==
  IF log = << >> THEN << >>
  ELSE IF IsExc(Head(log)) THEN Received(Tail(log))
  ELSE <<[Head(log) EXCEPT !.at = 0]>> \o Received(Tail(log))

IsPrefix(a, b) == Len(a) <= Len(b) /\ SubSeq(b, 1, Len(a)) = a

\* the number of bytes the os.read a side has just returned from was asked for
Wanted(s) == IF pc[s] = "r91" THEN PrefixLen ELSE sz[s]

\* C1: round trip: once write(o) has returned on one side, the read() on the
\* other side that takes it returns an object equal to o (here: the first
\* write of a side and the first read of its peer)
C1_RoundTrip ==
  \A s \in Sides :
    (Len(rlog[s]) >= 1 /\ wdone[Peer(s)] >= 1)
      => rlog[s][1] = Returned(written[Peer(s)][1])

\* C2: ordering and framing: the objects returned by the successful reads of
\* a side are a prefix of the objects its peer wrote
C2_ReceivedIsPrefix ==
  \A s \in Sides : IsPrefix(Received(rlog[s]), written[Peer(s)])

\* C4: DuplexPipe.read(n) returns fewer than n bytes only at end-of-stream:
\* never while the peer holds the write side of the FIFO open
C4_ShortOnlyAtEof ==
  \A s \in Sides :
    (pc[s] \in {"r91", "r95"} /\ Len(rdata[s]) < Wanted(s))
      => ~(ep[Peer(s)].wnm = ep[s].rnm /\ ep[Peer(s)].wfd = "open")

\* the helper has ended and never opened either FIFO
HelperEndedNoRendezvous ==
  proc = "exited" /\ ep["helper"].rfd = None /\ ep["helper"].wfd = None

\* C5: once the helper has ended without completing the rendezvous, the
\* parent's read() eventually fails with EOFError
C5_ReadEventuallyEof ==
  (HelperEndedNoRendezvous /\ pc["parent"] \in {"r90_open", "r90_read"})
    ~> (pc["parent"] = "idle" /\ rlog["parent"] # << >>
        /\ rlog["parent"][Len(rlog["parent"])].t = "EOFError")

\* C7: when write(obj) returns, the FIFO has received the whole frame of obj:
\* with every write returned, exactly the frames of the written objects
C7_WriteSendsWholeFrame ==
  \A s \in Sides :
    (pc[s] = "idle" /\ wdone[s] = Len(written[s])) => sent[s] = Frames(written[s])

----------------------------------------------------------------------------
(* Properties of SubprocPipe.read on a byte stream (StreamSpec) *)

\* the stream the peer wrote stops inside a frame: inside the prefix, or
\* before the payload the prefix announces is all there
IncompleteFrame(st) ==
  \/ Len(st) < PrefixLen
  \/ Len(st) - PrefixLen < Unpack(SubSeq(st, 1, PrefixLen))

\* the stream is one whole frame
CompleteFrame(st) ==
  /\ Len(st) >= PrefixLen
  /\ Len(st) - PrefixLen = Unpack(SubSeq(st, 1, PrefixLen))

PayloadOf(st) == SubSeq(st, PrefixLen + 1, Len(st))

WriterClosed == ep["helper"].wfd = "closed"

C6_UndecodableIsDistinctError ==
  (rlog["parent"] # << >> /\ CompleteFrame(sent["helper"])
     /\ IsExc(Loads(PayloadOf(sent["helper"]))))
    => /\ IsExc(rlog["parent"][1])
       /\ rlog["parent"][1].t # "EOFError"

----------------------------------------------------------------------------
(* Properties of spawn_helper (SpawnSpec) and of connect (ConnectSpec) *)

\* how many of the two endpoints read, and write, FIFO f
Readers(p, c, f) == (IF p.rnm = f THEN 1 ELSE 0) + (IF c.rnm = f THEN 1 ELSE 0)
Writers(p, c, f) == (IF p.wnm = f THEN 1 ELSE 0) + (IF c.wnm = f THEN 1 ELSE 0)

\* C8: the endpoint on the helper's command line is the mirror of the
\* endpoint the parent keeps: same directory, names swapped, and each FIFO
\* has one reader and one writer
C8_CommandLineEndpointIsMirror ==
  spc = "done" =>
    LET p == ep["parent"]
        c == EndpointArg(exe)
    IN /\ c.tdir = p.tdir
       /\ c.rnm = p.wnm
       /\ c.wnm = p.rnm
       /\ \A f \in {p.rnm, p.wnm} : Readers(p, c, f) = 1 /\ Writers(p, c, f) = 1

\* C8's case: an elevated spawn has returned its connection
C8_Witness ==
  /\ spc = "done"
  /\ conn.t = "SubprocPipe"
  /\ proc = "prompt"
  /\ EndpointArg(exe).rnm = ep["parent"].wnm

SameLocation(a, b) == a.tdir = b.tdir /\ a.rnm = b.rnm /\ a.wnm = b.wnm

\* C9: connect() applied twice gives the directory, read-name and write-name
\* of the endpoint it started from
C9_ConnectInvolutive ==
  (nconn > 0 /\ nconn % 2 = 0) => SameLocation(tpipe, tpipe0)

\* C9's case: an endpoint rebuilt from location data, with two different
\* FIFOs, mirrored twice
C9_Witness ==
  /\ nconn = 2
  /\ tpipe0.rnm = Join(tpipe0.tdir, "a")
  /\ tpipe0.wnm = Join(tpipe0.tdir, "pipein")
  /\ SameLocation(tpipe, tpipe0)

\* none of the elevation programs is in a directory of PATH
NoElevationOnPath ==
  \A i \in 1..Len(PathDirs) : \A n \in ElevationPrograms : Join(PathDirs[i], n) \notin exists

\* C10: as_root without any elevation program on PATH (the helper
\* executable being there): spawn_helper returns a connection and the command
\* is the plain helper command
C10_NoElevationStillSpawns ==
  (spc = "done" /\ as_root /\ NoElevationOnPath /\ FindHelper[1] \in exists)
    => /\ conn.t = "SubprocPipe"
       /\ Len(exe) = Len(FindHelper) + 2
       /\ SubSeq(exe, 1, Len(FindHelper)) = FindHelper
       /\ proc = "running"

\* C10's case: a graphical session, as_root, nothing to elevate with
C10_Witness ==
  /\ spc = "done"
  /\ as_root
  /\ "DISPLAY" \in DOMAIN environ
  /\ NoElevationOnPath
  /\ conn.t = "SubprocPipe"
  /\ exe[1] = FindHelper[1]

\* the paths an elevation program can be installed at
ElevationPaths == {Join(d, n) : <<d, n>> \in SearchDirs \X ElevationPrograms}

\* C11: spawn_helper(esky, as_root=False) never launches an elevation
\* program: whatever PATH holds and whatever DISPLAY is, the command line
\* starts with the helper executable and names no elevation program
C11_NoElevationUnlessAsked ==
  (spc = "done" /\ ~as_root)
    => /\ exe[1] = FindHelper[1]
       /\ \A i \in 1..Len(exe) : exe[i] \notin ElevationPaths

\* C11's case: a graphical session with gksudo and sudo installed, and the
\* caller did not ask for elevation
C11_Witness ==
  /\ spc = "done"
  /\ ~as_root
  /\ "DISPLAY" \in DOMAIN environ
  /\ Join(PathDirs[1], "gksudo") \in exists
  /\ Join(PathDirs[1], "sudo") \in exists
  /\ conn.t = "SubprocPipe"

\* name is found in a directory of PATH
OnPath(name) == \E i \in 1..Len(PathDirs) : Join(PathDirs[i], name) \in exists

\* the path name is found at: in the first directory of PATH that holds it
WhereOnPath(name) ==
  Join(PathDirs[CHOOSE i \in 1..Len(PathDirs) :
                  /\ Join(PathDirs[i], name) \in exists
                  /\ \A j \in 1..(i - 1) : Join(PathDirs[j], name) \notin exists],
       name)

\* the elevation programs in their fixed order, the graphical ones only in a
\* graphical session
Candidates ==
  IF "DISPLAY" \in DOMAIN environ THEN <<"gksudo", "kdesudo", "sudo">> ELSE <<"sudo">>

\* C12: with as_root the command line is the helper command (find_helper's
\* words and the two encoded arguments) after a prefix that is empty when no
\* candidate is on PATH and otherwise starts with the first candidate that is
\* on PATH and names no other elevation program
C12_FirstAvailableElevation ==
  (spc = "done" /\ as_root) =>
    LET n == Len(exe) - (Len(FindHelper) + 2)
        pre == SubSeq(exe, 1, n)
        avail == {i \in 1..Len(Candidates) : OnPath(Candidates[i])}
    IN /\ n >= 0
       /\ SubSeq(exe, n + 1, n + Len(FindHelper)) = FindHelper
       /\ exe[Len(exe) - 1] = B64Encode(DumpsInstance(Connect(ep["parent"])))
       /\ exe[Len(exe)] = B64Encode(DumpsEsky)
       /\ IF avail = {}
          THEN pre = << >>
          ELSE /\ pre # << >>
               /\ pre[1] = WhereOnPath(Candidates[CHOOSE i \in avail : \A j \in avail : i <= j])
               /\ \A i \in 2..Len(pre) : pre[i] \notin ElevationPaths

\* C12's case: a graphical session without gksudo, with kdesudo and sudo
C12_Witness ==
  /\ spc = "done"
  /\ as_root
  /\ "DISPLAY" \in DOMAIN environ
  /\ ~OnPath("gksudo")
  /\ OnPath("kdesudo")
  /\ OnPath("sudo")
  /\ exe[1] = WhereOnPath("kdesudo")

\* C13: without the helper executable spawn_helper raises and returns no
\* connection, with as_root and without
C13_MissingHelperFailsToLaunch ==
  (spc = "done" /\ FindHelper[1] \notin exists) => conn.t = "OSError"

----------------------------------------------------------------------------
(* Properties of terminate and close *)

\* C14: after terminate() has returned on the parent's connection, the
\* connection is closed: neither of its descriptors is still held
C14_TerminateClosesConnection ==
  ret["parent"].op = "terminate"
    => /\ ep["parent"].rfd \notin {"waiting", "open"}
       /\ ep["parent"].wfd \notin {"waiting", "open"}

----------------------------------------------------------------------------
(* Teardown: close() and terminate() on a connection that has been used.   *)
(* Each side has written some objects and its peer has read them; a side    *)
(* that wrote nothing never opened its write side, a side whose peer wrote  *)
(* nothing never opened its read side.                                      *)

\* the most objects a side has written before teardown
MaxTraffic == 2

\* the objects exchanged before teardown, each a frame os.write hands over whole
TrafficObjs == {ObjNone, ObjTrue}

Traffic == UNION {[1..n -> TrafficObjs] : n \in 0..MaxTraffic}

Last(seq) == seq[Len(seq)]

\* the state with tp written by the parent and read by the helper, th written
\* by the helper and read by the parent, every call returned
AfterTraffic(tp, th) ==
  LET w == [s \in Sides |-> IF s = "parent" THEN tp ELSE th]
  IN /\ written = w
     /\ wdone = [s \in Sides |-> Len(w[s])]
     /\ sent = [s \in Sides |-> Frames(w[s])]
     /\ wpay = [s \in Sides |-> IF w[s] = << >> THEN << >> ELSE Dumps(Last(w[s]))]
     /\ wrem = [s \in Sides |-> << >>]
     /\ wcnt = [s \in Sides |-> 0]
     /\ ret = [s \in Sides |-> IF w[s] = << >> THEN NoRet
                                ELSE [op |-> "write", t |-> Ok.t, at |-> Ok.at]]
     /\ nreads = [s \in Sides |-> Len(w[Peer(s)])]
     /\ rlog = [s \in Sides |-> [i \in 1..Len(w[Peer(s)]) |-> Returned(w[Peer(s)][i])]]
     /\ rdata = [s \in Sides |-> IF w[Peer(s)] = << >> THEN << >>
                                  ELSE Dumps(Last(w[Peer(s)]))]
     /\ sz = [s \in Sides |-> IF w[Peer(s)] = << >> THEN 0
                               ELSE Len(Dumps(Last(w[Peer(s)])))]
     /\ buf = [f \in Fifos |-> << >>]
     /\ ep = [s \in Sides |->
               [(IF s = "parent" THEN ParentPipe ELSE HelperPipe) EXCEPT
                  !.rfd = IF w[Peer(s)] = << >> THEN None ELSE "open",
                  !.wfd = IF w[s] = << >> THEN None ELSE "open"]]
     /\ pc = [s \in Sides |-> "idle"]
     /\ fs = {TDir} \cup Fifos

TeardownInit ==
  /\ \E tp \in Traffic, th \in Traffic :
       /\ AfterTraffic(tp, th)
       /\ proc \in (IF tp = << >> /\ th = << >> THEN {"prompt", "running"} ELSE {"running"})
  /\ SpawnOff
  /\ ConnOff
  /\ BdistOff

\* both sides close and terminate as they please, in any interleaving of
\* the lines of close()
TeardownNext ==
  \E s \in Sides :
    \/ CloseCall(s)
    \/ CloseWfd(s)
    \/ CloseUnlink(s)
    \/ CloseListDir(s)
    \/ CloseRmDir(s)
    \/ Terminate(s)
    \/ HelperStart
    \/ HelperExit

TeardownSpec == TeardownInit /\ [][TeardownNext]_vars

\* close() is called by a side that has not called it, while its peer is not
\* inside close()
SeqCloseCall(s) ==
  /\ pc[Peer(s)] = "idle"
  /\ ret[s].op # "close"
  /\ CloseCall(s)

\* traffic in both directions
SeqTeardownInit ==
  /\ \E tp \in Traffic \ {<< >>}, th \in Traffic \ {<< >>} : AfterTraffic(tp, th)
  /\ proc = "running"
  /\ SpawnOff
  /\ ConnOff
  /\ BdistOff

\* the two sides call close() one after the other, in either order
SeqTeardownNext ==
  \E s \in Sides :
    \/ SeqCloseCall(s)
    \/ CloseWfd(s)
    \/ CloseUnlink(s)
    \/ CloseListDir(s)
    \/ CloseRmDir(s)

SeqTeardownSpec == SeqTeardownInit /\ [][SeqTeardownNext]_vars

\* the lines of close() after the first
ClosePcs == {"c71", "c72", "c73", "c74"}

\* this step is a line of side s's close()
CloseStepOf(s) ==
  \/ pc'[s] # pc[s] /\ pc'[s] # "dead" /\ (pc[s] \in ClosePcs \/ pc'[s] \in ClosePcs)
  \/ ret'[s] # ret[s] /\ ret'[s].op = "close"

\* this step is side s's terminate() returning
TerminateStepOf(s) == ret'[s] # ret[s] /\ ret'[s].op = "terminate"

\* C15: terminate() and close() are independent: the parent's terminate()
\* ends the subprocess whether or not close() was called before; the
\* helper's terminate(), whose connection owns no subprocess, changes
\* nothing; no line of close() signals the subprocess or disturbs the peer,
\* and a close() that returns has released both descriptors
C15_TerminateAndCloseIndependent ==
  [][/\ TerminateStepOf("parent") => proc' = "exited"
     /\ TerminateStepOf("helper") => (proc' = proc /\ ep' = ep /\ fs' = fs)
     /\ \A s \in Sides :
          CloseStepOf(s) => (proc' = proc /\ pc'[Peer(s)] = pc[Peer(s)]
                             /\ ep'[Peer(s)] = ep[Peer(s)])
     /\ \A s \in Sides :
          (CloseStepOf(s) /\ pc'[s] = "idle" /\ ret'[s].t = Ok.t)
            => (ep'[s].rfd = "closed" /\ ep'[s].wfd = "closed")
    ]_vars

\* C15's case: the parent closed its connection, the helper went on running,
\* and the parent's terminate(), called after that, has ended it
C15_Witness ==
  /\ ret["parent"].op = "terminate"
  /\ ep["parent"].rfd = "closed"
  /\ ep["parent"].wfd = "closed"
  /\ ParentPipe.wnm \notin fs
  /\ proc = "exited"
  /\ ret["helper"].op = "terminate"

\* both sides have called close() and both calls are over
BothClosed == \A s \in Sides : ret[s].op = "close" /\ pc[s] = "idle"

\* C16: the two sides of a channel used in both directions close one after
\* the other: both calls return normally and leave neither FIFO nor the
\* temporary directory behind
C16_LastCloserTearsDown ==
  BothClosed => /\ \A s \in Sides : ret[s].t = Ok.t
                /\ fs \cap ({TDir} \cup Fifos) = {}

\* C16's case: both have closed and everything is gone
C16_Witness ==
  /\ BothClosed
  /\ \A s \in Sides : ep[s].rfd = "closed" /\ ep[s].wfd = "closed"
  /\ written["parent"] # << >>
  /\ written["helper"] # << >>
  /\ fs = {}

\* C19: the two close() calls run concurrently: whatever the interleaving of
\* their lines, a call that has closed its own descriptors goes on to return
\* normally (a failure at lines 70-71 is about the state of the descriptors,
\* not about the interleaving)
C19_ConcurrentCloseSucceeds ==
  \A s \in Sides :
    (ret[s].op = "close" /\ ret[s].at \notin {70, 71}) => ret[s].t = Ok.t

\* C20: close() returns normally whichever of the descriptors were opened:
\* it never fails on a descriptor that is still None
C20_CloseAnyHandleState ==
  \A s \in Sides : ret[s].op = "close" => ret[s].t # "TypeError"

----------------------------------------------------------------------------
(* Request and reply: the parent writes a request and reads the reply, the  *)
(* helper reads a request and writes the reply, each in strict alternation. *)

\* what side s calls next: the parent starts with a write, the helper with a
\* read
Turn(s) ==
  IF s = "parent"
  THEN IF Len(written[s]) = nreads[s] THEN "write" ELSE "read"
  ELSE IF nreads[s] = Len(written[s]) THEN "read" ELSE "write"

AltReadCall(s) == Turn(s) = "read" /\ ReadCall(s)

AltWriteCall(s, obj) == Turn(s) = "write" /\ WriteCall(s, obj)

\* the helper is running
AltInit == Init /\ proc = "running"

\* the steps side s takes by itself
AltSteps(s) ==
  \/ AltReadCall(s)
  \/ OpenReturn(s)
  \/ OsRead(s)
  \/ ReadCheckSz(s)
  \/ ReadCheckData(s)
  \/ \E obj \in Objs : AltWriteCall(s, obj)
  \/ OsWrite(s)

\* no signal handler runs during the session
AltNext == \E s \in Sides : AltSteps(s)

\* each process runs whenever it can
AltFairSpec ==
  AltInit /\ [][AltNext]_vars /\ \A s \in Sides : WF_vars(AltSteps(s))

\* C18: in the alternating session every request the parent writes is
\* eventually returned by a read() of the helper, and every reply the helper
\* writes is eventually returned by a read() of the parent
C18_AlternationDelivers ==
  \A s \in Sides :
    (written[s] # << >>)
      ~> (rlog[Peer(s)] # << >> /\ rlog[Peer(s)][1] = Returned(written[s][1]))

----------------------------------------------------------------------------
(* bdist_esky.run (esky/bdist_esky.py): the bootstrap directory and its     *)
(* manifest.  A file name is the sequence of its dot-separated parts, a     *)
(* path the sequence of its names.                                          *)

\* self.dist_dir and self.distribution.get_fullname()
DistDir == <<<<"dist">>>>
FullName == <<"app-1", "0">>

\* line 49: fdir, and line 59: bsdir
FDir == Join(DistDir, FullName)
BsDir == Join(FDir, <<"esky-bootstrap">>)

\* os.path.basename
Basename(path) == path[Len(path)]

\* nm.endswith("." + ext)
EndsWith(nm, ext) == Len(nm) >= 2 /\ nm[Len(nm)] = ext

\* lines 71-75: the name of the frozen executable of script s
ScriptName(s, plat) ==
  LET nm == Basename(s)
      stem == IF EndsWith(nm, "py") \/ EndsWith(nm, "pyw")
              THEN SubSeq(nm, 1, Len(nm) - 1)
              ELSE nm
  IN IF plat = "win32" THEN Append(stem, "exe") ELSE stem

\* the first parts that begin with "python"
PythonWords == {"python", "python26", "python-tool"}

\* nm.startswith("python")
StartsWithPython(nm) == nm[1] \in PythonWords

\* the most scripts of a distribution
MaxScripts == 2

\* the scripts a distribution may name
ScriptPaths ==
  {<<<<"scripts">>, <<"app", "py">>>>, <<<<"gui", "pyw">>>>, <<<<"python-tool", "py">>>>}

ScriptLists == UNION {[1..n -> ScriptPaths] : n \in 0..MaxScripts}

Platforms == {"linux2", "win32"}

\* what the freezer may leave in fdir: any of the executables run() will
\* look for, interpreter files, other files, and directories
FrozenFiles ==
  {ScriptName(s, p) : <<s, p>> \in ScriptPaths \X Platforms}
    \cup {<<"python">>, <<"python26", "dll">>, <<"libpython2", "6", "so">>}
FrozenDirs == {<<"python-lib">>}

\* a file system while run() works on it: the paths, the directories among
\* them, the manifest so far, and the exception raised, if any
NoErr == [t |-> "ok", at |-> 0]

\* shutil.copy2 that copies nothing
Copy2Nothing(st, src, dst, line) ==
  IF st.err # NoErr THEN st
  ELSE IF src \notin st.fs \/ src \in st.dirs
  THEN [st EXCEPT !.err = [t |-> "IOError", at |-> line]]
  ELSE st

\* shutil.copy2(src, dst): IOError when src is missing or is a directory
Copy2(st, src, dst, line) ==
  IF st.err # NoErr THEN st
  ELSE IF src \notin st.fs \/ src \in st.dirs
  THEN [st EXCEPT !.err = [t |-> "IOError", at |-> line]]
  ELSE [st EXCEPT !.fs = @ \cup {dst}]

\* the body of the loops of lines 70-77 and 78-81 for the name nm:
\* copy it from fdir to bsdir and list it in the manifest
CopyAndList(st, nm, line) ==
  LET st2 == Copy2(st, Join(FDir, nm), Join(BsDir, nm), line)
  IN IF st2.err # NoErr THEN st2
     ELSE [st2 EXCEPT !.manifest = Append(@, nm)]

\* a loop over the names, in order, stopped by the first exception
RECURSIVE CopyLoop(_, _, _)
CopyLoop(st, names, line) ==
  IF names = << >> \/ st.err # NoErr THEN st
  ELSE CopyLoop(CopyAndList(st, Head(names), line), Tail(names), line)

\* os.listdir(dir): the names in dir
ListNames(paths, dir) ==
  {Basename(q) : q \in {r \in paths : Len(r) = Len(dir) + 1 /\ SubSeq(r, 1, Len(dir)) = dir}}

\* the orders os.listdir may return the names in
Orders(names) ==
  {f \in [1..Cardinality(names) -> names] :
     \A i, j \in 1..Cardinality(names) : f[i] = f[j] => i = j}

\* run(), lines 49-86: the freezer fills fdir with files and directories,
\* bsdir and its library.zip are made, the executables of the scripts and
\* the python* entries of fdir are copied and listed, the manifest is written
BdistRun ==
  /\ bst = [t |-> "start", at |-> 0]
  /\ \E files \in SUBSET FrozenFiles, fdirs \in SUBSET FrozenDirs :
       LET frozen0 == [fs |-> {DistDir, FDir} \cup {Join(FDir, n) : n \in files \cup fdirs},
                       dirs |-> {DistDir, FDir} \cup {Join(FDir, n) : n \in fdirs},
                       manifest |-> << >>,
                       err |-> NoErr]
           st1 == [frozen0 EXCEPT !.fs = @ \cup {BsDir, Join(BsDir, <<"library", "zip">>)},
                                  !.dirs = @ \cup {BsDir},
                                  !.manifest = <<<<"library", "zip">>>>]
           names == [i \in 1..Len(scripts) |-> ScriptName(scripts[i], platform)]
           st2 == CopyLoop(st1, names, 76)
           pys == {n \in ListNames(st2.fs, FDir) : StartsWithPython(n)}
       IN \E order \in Orders(pys) :
            LET st3 == CopyLoop(st2, order, 80)
            IN /\ bst' = st3.err
               /\ isdir' = st3.dirs
               /\ IF st3.err = NoErr
                  THEN /\ fs' = st3.fs \cup {Join(FDir, <<"esky-bootstrap", "txt">>)}
                       /\ manifest' = st3.manifest
                  ELSE /\ fs' = st3.fs
                       /\ manifest' = << >>
  /\ UNCHANGED <<scripts, platform>>
  /\ UNCHANGED <<buf, ep, proc, pc, wpay, wrem, wcnt, rdata, sz, nreads,
                 written, wdone, sent, rlog, ret>>
  /\ UNCHANGED <<spawnVars, connVars>>

BdistInit ==
  /\ scripts \in ScriptLists
  /\ platform \in Platforms
  /\ isdir = {}
  /\ manifest = << >>
  /\ bst = [t |-> "start", at |-> 0]
  /\ fs = {}
  /\ buf = [f \in Fifos |-> << >>]
  /\ ep = [s \in Sides |-> NoPipe]
  /\ proc = "none"
  /\ sent = [s \in Sides |-> << >>]
  /\ LocalsInit
  /\ SpawnOff
  /\ ConnOff

BdistNext == BdistRun

BdistSpec == BdistInit /\ [][BdistNext]_vars

\* C17: when run() has finished, the manifest starts with library.zip and
\* every name in it is a file in the esky-bootstrap directory
C17_ManifestListsBootstrapFiles ==
  bst = NoErr =>
    /\ manifest # << >>
    /\ manifest[1] = <<"library", "zip">>
    /\ \A i \in 1..Len(manifest) :
         Join(BsDir, manifest[i]) \in fs /\ Join(BsDir, manifest[i]) \notin isdir

\* C17's case: two scripts on win32 and an interpreter file, all listed
C17_Witness ==
  /\ bst = NoErr
  /\ platform = "win32"
  /\ Len(scripts) = 2
  /\ scripts[1] # scripts[2]
  /\ <<"python26", "dll">> \in {manifest[i] : i \in 1..Len(manifest)}
  /\ Len(manifest) >= 4

=============================================================================
